---- MODULE Spec2Model ----
(***************************************************************************)
(* Filter pipelines and metric roll-ups of the Prodigy IQ dashboard.       *)
(*                                                                         *)
(* A DataFrame is a sequence of rows; a row carries its index label (the   *)
(* pandas index given by read_csv) and one cell per column.  Text is a     *)
(* sequence of one-character strings, so that lower(), str() and           *)
(* str.contains() are computed character by character.                     *)
(***************************************************************************)
EXTENDS Integers, Sequences, FiniteSets, TLC

\* Largest number of records in the loaded CSV file.
MaxRows == 3
\* Largest number of sidebar widgets moved away from their default in one run.
MaxActive == 2

----------------------------------------------------------------------------
(* Text                                                                    *)

UpperChars == << "A","B","C","D","E","F","G","H","I","J","K","L","M",
                 "N","O","P","Q","R","S","T","U","V","W","X","Y","Z" >>
LowerChars == << "a","b","c","d","e","f","g","h","i","j","k","l","m",
                 "n","o","p","q","r","s","t","u","v","w","x","y","z" >>
DigitChars == << "0","1","2","3","4","5","6","7","8","9" >>

\* str.lower() on one character.
LowerChar(c) ==
    IF \E i \in 1..26 : UpperChars[i] = c
    THEN LowerChars[CHOOSE i \in 1..26 : UpperChars[i] = c]
    ELSE c

\* str.lower()
Lower(s) == [i \in 1..Len(s) |-> LowerChar(s[i])]

IsDigit(c) == \E i \in 1..10 : DigitChars[i] = c
DigitVal(c) == (CHOOSE i \in 1..10 : DigitChars[i] = c) - 1

RECURSIVE NatStr(_)
\* str() of a non-negative int.
NatStr(n) == IF n < 10 THEN << DigitChars[n + 1] >>
             ELSE NatStr(n \div 10) \o << DigitChars[(n % 10) + 1] >>

\* n zero-padded to two digits, as in a timestamp's text.
Pad2(n) == << DigitChars[(n \div 10) + 1], DigitChars[(n % 10) + 1] >>

----------------------------------------------------------------------------
(* Cells: the values pandas holds in a column                              *)

\* A str object.
Str(s) == [t |-> "str", s |-> s, n |-> 0, d |-> 1]
\* A float64 n/d (d > 0, d divides 10: at most one decimal).
Num(n, d) == [t |-> "num", s |-> << >>, n |-> n, d |-> d]
\* A missing value (float nan), the empty CSV field.
NaN == [t |-> "nan", s |-> << >>, n |-> 0, d |-> 1]
\* A Timestamp at midnight.
Date(y, m, dd) == [t |-> "date", s |-> << >>, n |-> (y * 10000) + (m * 100) + dd, d |-> 1]
\* The missing Timestamp.
NaT == [t |-> "nat", s |-> << >>, n |-> 0, d |-> 1]

\* Series.isna / what dropna() removes.
IsNA(c) == c.t \in {"nan", "nat"}

\* str(float): the integer part, a point and one decimal.
FloatStr(c) ==
    LET tenths == ((IF c.n < 0 THEN 0 - c.n ELSE c.n) * 10) \div c.d
    IN  (IF c.n < 0 THEN << "-" >> ELSE << >>)
        \o NatStr(tenths \div 10) \o << "." >> \o << DigitChars[(tenths % 10) + 1] >>

\* str(Timestamp): "YYYY-MM-DD 00:00:00".
TimestampStr(c) ==
    NatStr(c.n \div 10000) \o << "-" >> \o Pad2((c.n \div 100) % 100) \o << "-" >>
    \o Pad2(c.n % 100) \o << " ","0","0",":","0","0",":","0","0" >>

\* astype(str) on one value.
CellStr(c) ==
    CASE c.t = "str"  -> c.s
      [] c.t = "num"  -> FloatStr(c)
      [] c.t = "nan"  -> << "n","a","n" >>
      [] c.t = "date" -> TimestampStr(c)
      [] c.t = "nat"  -> << "N","a","T" >>

\* The ISO date "YYYY-MM-DD" as a Timestamp; any other text does not parse.
ParseDate(s) ==
    IF /\ Len(s) = 10
       /\ s[5] = "-" /\ s[8] = "-"
       /\ \A i \in {1, 2, 3, 4, 6, 7, 9, 10} : IsDigit(s[i])
    THEN LET y  == (DigitVal(s[1]) * 1000) + (DigitVal(s[2]) * 100)
                   + (DigitVal(s[3]) * 10) + DigitVal(s[4])
             m  == (DigitVal(s[6]) * 10) + DigitVal(s[7])
             dd == (DigitVal(s[9]) * 10) + DigitVal(s[10])
         IN  IF m \in 1..12 /\ dd \in 1..31 THEN Date(y, m, dd) ELSE NaT
    ELSE NaT

\* pd.to_datetime(value, errors="coerce")
ToDatetime(c) ==
    CASE c.t = "str"  -> ParseDate(c.s)
      [] c.t = "date" -> c
      [] c.t = "num"  -> Date(1970, 1, 1)
      [] OTHER        -> NaT

\* Series.dt.year of a Timestamp.
Year(c) == c.n \div 10000

\* value >= k and value < k for a float64 cell and an int k; nan compares False.
NumGE(c, k) == c.t = "num" /\ c.n >= k * c.d
NumLT(c, k) == c.t = "num" /\ c.n < k * c.d

----------------------------------------------------------------------------
(* Regular-expression search, as Series.str.contains(pat) with its default *)
(* regex=True runs it: re.search(pat, text).  Patterns are made of literal *)
(* characters, "." (any character) and parentheses.                        *)

RECURSIVE Count(_, _)
\* How many times character c occurs in s.
Count(s, c) == IF s = << >> THEN 0
               ELSE (IF Head(s) = c THEN 1 ELSE 0) + Count(Tail(s), c)

\* re.compile(pat) raises re.error: a parenthesis without its partner.
RegexError(pat) == Count(pat, "(") # Count(pat, ")")

\* pat matches text at position i: "." matches any character, others themselves.
MatchAt(pat, text, i) ==
    /\ i + Len(pat) - 1 <= Len(text)
    /\ \A k \in 1..Len(pat) : pat[k] = "." \/ pat[k] = text[i + k - 1]

\* re.search(pat, text) is not None
RegexSearch(pat, text) == \E i \in 1..(Len(text) + 1) : MatchAt(pat, text, i)

\* pat in text: the plain substring test.
Contains(text, pat) ==
    \E i \in 1..(Len(text) + 1) :
        /\ i + Len(pat) - 1 <= Len(text)
        /\ \A k \in 1..Len(pat) : pat[k] = text[i + k - 1]

----------------------------------------------------------------------------
(* The dataset: columns of "Refine Sample.csv" the pages read              *)

TextCols == {"Well_Name", "Operator", "Contractor", "flowline_Shakers", "TD_Date"}
NumCols  == {"Hole_Size", "MD Depth", "AMW", "IntLength", "Haul_OFF", "Total_Dil",
             "Drilling_Hours", "ROP", "Solids_Generated", "Discard Ratio",
             "Total_SCE", "Base_Oil", "Water", "Chemicals", "LGS", "DSRE"}
Cols == TextCols \cup NumCols

\* The columns behind the four equality select boxes, in the order of the loop.
EqCols == << "Operator", "Contractor", "flowline_Shakers", "Hole_Size" >>

tDerrick    == << "D","e","r","r","i","c","k" >>
tNonDerrick == << "N","o","n","-","D","e","r","r","i","c","k" >>
tOxy        == << "O","x","y" >>
tBP         == << "B","P" >>
tHP         == << "H","&","P" >>
tNabors     == << "N","a","b","o","r","s" >>

\* Records a CSV file may hold.  Numeric columns are float64.
Rec1 ==
    [c \in Cols |->
        CASE c = "Well_Name"        -> Str(<< "W","1" >>)
          [] c = "Operator"         -> Str(tOxy)
          [] c = "Contractor"       -> Str(tHP)
          [] c = "flowline_Shakers" -> Str(tDerrick)
          [] c = "TD_Date"          -> Str(<< "2","0","2","0","-","0","1","-","0","1" >>)
          [] c = "Hole_Size"        -> Num(17, 2)
          [] c = "MD Depth"         -> Num(4000, 1)
          [] c = "AMW"              -> Num(9, 1)
          [] c = "IntLength"        -> Num(100, 1)
          [] c = "Haul_OFF"         -> Num(10, 1)
          [] c = "Total_Dil"        -> Num(25, 1)
          [] c = "Drilling_Hours"   -> Num(24, 1)
          [] c = "ROP"              -> Num(51, 1)
          [] c = "Solids_Generated" -> Num(20, 1)
          [] c = "Discard Ratio"    -> Num(1, 2)
          [] c = "Total_SCE"        -> Num(5, 1)
          [] c = "Base_Oil"         -> Num(1, 1)
          [] c = "Water"            -> Num(2, 1)
          [] c = "Chemicals"        -> Num(3, 1)
          [] c = "LGS"              -> Num(1, 10)
          [] c = "DSRE"             -> Num(1, 2)]

Rec2 ==
    [Rec1 EXCEPT !["Well_Name"] = Str(<< "W","2" >>),
                 !["Contractor"] = Str(tNabors),
                 !["flowline_Shakers"] = Str(tNonDerrick),
                 !["TD_Date"] = Str(<< "2","0","2","1","-","0","6","-","0","1" >>),
                 !["Hole_Size"] = Num(6, 1),
                 !["MD Depth"] = Num(5000, 1),
                 !["AMW"] = Num(11, 1),
                 !["IntLength"] = Num(200, 1),
                 !["Haul_OFF"] = Num(20, 1),
                 !["Total_Dil"] = Num(0, 1),
                 !["Total_SCE"] = Num(815, 1),
                 !["Discard Ratio"] = Num(0, 1)]

Rec3 ==
    [Rec1 EXCEPT !["Well_Name"] = Str(<< "W","3" >>),
                 !["Operator"] = Str(tBP),
                 !["TD_Date"] = Str(<< "2","0","2","2","-","0","3","-","1","5" >>),
                 !["MD Depth"] = Num(25000, 1),
                 !["AMW"] = Num(30, 1),
                 !["IntLength"] = Num(0, 1),
                 !["Haul_OFF"] = Num(5, 1),
                 !["Drilling_Hours"] = Num(0, 1),
                 !["Solids_Generated"] = Num(0, 1)]

\* A record with every field but the well name empty.
Rec4 ==
    [c \in Cols |->
        CASE c = "Well_Name" -> Str(<< "W","4" >>)
          [] OTHER           -> NaN]

Rec5 ==
    [Rec2 EXCEPT !["Well_Name"] = Str(<< "W","5" >>),
                 !["Operator"] = Str(tBP),
                 !["TD_Date"] = Str(<< "2","0","1","9","-","1","2","-","3","1" >>),
                 !["MD Depth"] = Num(30000, 1),
                 !["AMW"] = Num(2, 1),
                 !["Total_SCE"] = Num(4, 1),
                 !["Hole_Size"] = Num(0, 1)]

\* A record whose date does not parse.
Rec6 ==
    [Rec1 EXCEPT !["Well_Name"] = Str(<< "W","6" >>),
                 !["TD_Date"] = Str(<< "t","b","d" >>),
                 !["MD Depth"] = Num(12000, 1),
                 !["AMW"] = Num(14, 1),
                 !["Haul_OFF"] = Num(30, 1)]

Pool == {Rec1, Rec2, Rec3, Rec4, Rec5, Rec6}

\* read_csv: the records in file order under a RangeIndex 0, 1, 2, ...
ReadCsv(recs) == [i \in 1..Len(recs) |-> [idx |-> i - 1, v |-> recs[i]]]

RECURSIVE SeqsUpTo(_, _)
\* All sequences over S of length at most n.
SeqsUpTo(S, n) ==
    IF n = 0 THEN {<< >>}
    ELSE LET shorter == SeqsUpTo(S, n - 1)
         IN  shorter \cup {Append(q, x) : q \in shorter, x \in S}

Files == SeqsUpTo(Pool, MaxRows)

----------------------------------------------------------------------------
(* Sidebar widgets                                                         *)

\* st.sidebar.slider("TD Date Range", 2020, 2026, (2020, 2026))
SliderMin == 2020
SliderMax == 2026

\* depth_bins / depth_map: name, low, high; inf marks float("inf") as high.
DepthBins ==
    << [name |-> "<5000 ft",       low |-> 0,     high |-> 5000,  inf |-> FALSE],
       [name |-> "5000-10000 ft",  low |-> 5000,  high |-> 10000, inf |-> FALSE],
       [name |-> "10000-15000 ft", low |-> 10000, high |-> 15000, inf |-> FALSE],
       [name |-> "15000-20000 ft", low |-> 15000, high |-> 20000, inf |-> FALSE],
       [name |-> "20000-25000 ft", low |-> 20000, high |-> 25000, inf |-> FALSE],
       [name |-> ">25000 ft",      low |-> 25000, high |-> 0,     inf |-> TRUE] >>

\* mw_bins / mw_map
MwBins ==
    << [name |-> "<3",    low |-> 0,  high |-> 3,  inf |-> FALSE],
       [name |-> "3-6",   low |-> 3,  high |-> 6,  inf |-> FALSE],
       [name |-> "6-9",   low |-> 6,  high |-> 9,  inf |-> FALSE],
       [name |-> "9-11",  low |-> 9,  high |-> 11, inf |-> FALSE],
       [name |-> "11-14", low |-> 11, high |-> 14, inf |-> FALSE],
       [name |-> "14-30", low |-> 14, high |-> 30, inf |-> FALSE] >>

BinNames(bins) == {bins[i].name : i \in 1..Len(bins)}
BinOf(bins, name) == bins[CHOOSE i \in 1..Len(bins) : bins[i].name = name]

\* (value >= low) & (value <= high): bins closed at both ends.
InBinClosed(c, b) ==
    NumGE(c, b.low) /\ (IF b.inf THEN c.t = "num" ELSE c.t = "num" /\ c.n <= b.high * c.d)

\* (value >= low) & (value < high); value < inf holds of every number.
InBin(c, b) == NumGE(c, b.low) /\ (IF b.inf THEN c.t = "num" ELSE NumLT(c, b.high))

\* The "All" entry of a select box, and a value entry.
All == [t |-> "all", s |-> << >>, n |-> 0, d |-> 1]

\* Texts typed into "Search Anything".
SearchTerms == { << >>, tDerrick, << "x","y","z" >>, << "8",".","5" >>, << "(" >> }

\* Positions of the year slider's two handles.
YearWindows == { << SliderMin, SliderMax >>, << 2021, 2022 >>, << 2020, 2020 >>,
                 << 2021, SliderMax >> }

DefaultSel ==
    [search |-> << >>, eq |-> [i \in 1..Len(EqCols) |-> All],
     win |-> << SliderMin, SliderMax >>, depth |-> "All", mw |-> "All",
     shakers |-> {}, wells |-> {}]

\* How many widgets are away from their default.
NumActive(sel) ==
    (IF sel.search # << >> THEN 1 ELSE 0)
    + Cardinality({i \in 1..Len(EqCols) : sel.eq[i] # All})
    + (IF sel.win # << SliderMin, SliderMax >> THEN 1 ELSE 0)
    + (IF sel.depth # "All" THEN 1 ELSE 0)
    + (IF sel.mw # "All" THEN 1 ELSE 0)
    + Cardinality(sel.shakers) + Cardinality(sel.wells)

----------------------------------------------------------------------------
(* DataFrame operations                                                    *)

RECURSIVE BoolIndexReversed(_, _)
\* frame[mask] collected back to front.
BoolIndexReversed(frame, mask) ==
    IF frame = << >> THEN << >>
    ELSE BoolIndexReversed(Tail(frame), Tail(mask))
         \o (IF Head(mask) THEN << Head(frame) >> ELSE << >>)

RECURSIVE BoolIndex(_, _)
\* frame[mask]: the rows whose mask entry is True, in frame order.
BoolIndex(frame, mask) ==
    IF frame = << >> THEN << >>
    ELSE (IF Head(mask) THEN << Head(frame) >> ELSE << >>)
         \o BoolIndex(Tail(frame), Tail(mask))

\* frame[col] = pd.to_datetime(frame[col], errors="coerce")
ConvertDates(frame, col) ==
    [i \in 1..Len(frame) |->
        [frame[i] EXCEPT !.v[col] = ToDatetime(frame[i].v[col])]]

\* frame[col].dropna().astype(str).unique(): the entries after "All".
TextOptions(frame, col) ==
    {Str(CellStr(frame[i].v[col])) : i \in {j \in 1..Len(frame) : ~IsNA(frame[j].v[col])}}

\* frame[col].dropna().unique()
RawOptions(frame, col) ==
    {frame[i].v[col] : i \in {j \in 1..Len(frame) : ~IsNA(frame[j].v[col])}}

\* The outcome of a run so far: the frame (its rows and its columns), or the
\* exception that ended the run.
Ok(rows, cols) == [status |-> "ok", rows |-> rows, cols |-> cols]
Raise(exc) == [status |-> exc, rows |-> << >>, cols |-> {}]

----------------------------------------------------------------------------
(* The filter steps.  Each takes the outcome so far; a step after an       *)
(* exception does nothing.                                                 *)

\* row.astype(str).str.lower().str.contains(term).any() for one row.
RowMatches(row, cols, term) ==
    \E c \in cols : RegexSearch(term, Lower(CellStr(row.v[c])))

\* if search: frame = frame[frame.apply(<row matches>, axis=1)]
\* On a frame without rows, apply() probes the function on one row of nan: if
\* it returns a bool, apply() returns an empty float Series, and indexing the
\* frame with it selects no columns; if it raises, apply() returns a copy of
\* the frame, and indexing with it keeps the (empty) frame as it is.
SearchStep(r, term) ==
    IF r.status # "ok" \/ term = << >> THEN r
    ELSE IF r.rows = << >>
         THEN (IF RegexError(term) THEN r ELSE Ok(<< >>, {}))
    ELSE IF RegexError(term) THEN Raise("re.error")
    ELSE Ok(BoolIndex(r.rows, [i \in 1..Len(r.rows) |-> RowMatches(r.rows[i], r.cols, term)]),
            r.cols)

\* frame = frame[frame[col].astype(str) == choice]
TextEqStep(r, col, choice) ==
    IF r.status # "ok" THEN r
    ELSE IF col \notin r.cols THEN Raise("KeyError")
    ELSE Ok(BoolIndex(r.rows, [i \in 1..Len(r.rows) |->
                CellStr(r.rows[i].v[col]) = choice.s]), r.cols)

\* frame = frame[frame[col] == choice]; nan equals nothing.
RawEqStep(r, col, choice) ==
    IF r.status # "ok" THEN r
    ELSE IF col \notin r.cols THEN Raise("KeyError")
    ELSE Ok(BoolIndex(r.rows, [i \in 1..Len(r.rows) |->
                ~IsNA(r.rows[i].v[col]) /\ r.rows[i].v[col] = choice]), r.cols)

\* The menu is built but the choice never applied.
TextSelectStepUnapplied(r, col, choice) ==
    IF r.status # "ok" THEN r
    ELSE IF col \notin r.cols THEN Raise("KeyError")
    ELSE r

\* One pass of the loop of apply_shared_filters over a select-box column: the
\* menu is built from the column (which must exist), then the choice applied.
TextSelectStep(r, col, choice) ==
    IF r.status # "ok" THEN r
    ELSE IF col \notin r.cols THEN Raise("KeyError")
    ELSE IF choice = All THEN r
    ELSE TextEqStep(r, col, choice)

\* The year window with its lower end excluded.
YearStepLowExclusive(r, ylo, yhi) ==
    IF r.status # "ok" THEN r
    ELSE IF "TD_Date" \notin r.cols THEN Raise("KeyError")
    ELSE LET conv == ConvertDates(r.rows, "TD_Date")
         IN  Ok(BoolIndex(conv, [i \in 1..Len(conv) |->
                    /\ conv[i].v["TD_Date"].t = "date"
                    /\ Year(conv[i].v["TD_Date"]) > ylo
                    /\ Year(conv[i].v["TD_Date"]) <= yhi]), r.cols)

\* The year window with its upper end excluded.
YearStepHighExclusive(r, ylo, yhi) ==
    IF r.status # "ok" THEN r
    ELSE IF "TD_Date" \notin r.cols THEN Raise("KeyError")
    ELSE LET conv == ConvertDates(r.rows, "TD_Date")
         IN  Ok(BoolIndex(conv, [i \in 1..Len(conv) |->
                    /\ conv[i].v["TD_Date"].t = "date"
                    /\ Year(conv[i].v["TD_Date"]) >= ylo
                    /\ Year(conv[i].v["TD_Date"]) < yhi]), r.cols)

\* frame["TD_Date"] = pd.to_datetime(...); then the rows whose year lies in
\* the slider's window.  A missing date has year nan, which compares False.
YearStep(r, ylo, yhi) ==
    IF r.status # "ok" THEN r
    ELSE IF "TD_Date" \notin r.cols THEN Raise("KeyError")
    ELSE LET conv == ConvertDates(r.rows, "TD_Date")
         IN  Ok(BoolIndex(conv, [i \in 1..Len(conv) |->
                    /\ conv[i].v["TD_Date"].t = "date"
                    /\ Year(conv[i].v["TD_Date"]) >= ylo
                    /\ Year(conv[i].v["TD_Date"]) <= yhi]), r.cols)

\* A range select box ("Depth", "Average Mud Weight"): the column is read only
\* when a bin is selected.
BinStep(r, col, bins, choice) ==
    IF r.status # "ok" \/ choice = "All" THEN r
    ELSE IF col \notin r.cols THEN Raise("KeyError")
    ELSE Ok(BoolIndex(r.rows, [i \in 1..Len(r.rows) |->
                InBin(r.rows[i].v[col], BinOf(bins, choice))]), r.cols)

\* df["TD_Date"] = pd.to_datetime(df["TD_Date"], errors='coerce') after read_csv.
LoadStep(frame, schema) ==
    IF "TD_Date" \notin schema THEN Raise("KeyError")
    ELSE Ok(ConvertDates(frame, "TD_Date"), schema)

\* apply_shared_filters(df) of app.py, given df as an outcome: the search,
\* the four select boxes, the year window, the depth bin, the mud-weight bin.
ApplySharedFilters(r0, sel) ==
    LET r1 == SearchStep(r0, Lower(sel.search))
        r2 == TextSelectStep(r1, EqCols[1], sel.eq[1])
        r3 == TextSelectStep(r2, EqCols[2], sel.eq[2])
        r4 == TextSelectStep(r3, EqCols[3], sel.eq[3])
        r5 == TextSelectStep(r4, EqCols[4], sel.eq[4])
        r6 == YearStep(r5, sel.win[1], sel.win[2])
        r7 == BinStep(r6, "MD Depth", DepthBins, sel.depth)
    IN  BinStep(r7, "AMW", MwBins, sel.mw)

\* The entries a select box offers: "All" and the values of the column in the
\* frame it is built from; a select box the run does not reach returns "All".
Menu(r, col, text) ==
    IF r.status # "ok" \/ col \notin r.cols THEN {All}
    ELSE {All} \cup (IF text THEN TextOptions(r.rows, col) ELSE RawOptions(r.rows, col))

\* What a widget with the given entries returns: one of them, or only its
\* default when the run ended before the widget.
Offered(r, entries, default) == IF r.status = "ok" THEN entries ELSE {default}

\* render_multi_well_page() of multi_well_comparison.py, lines 13-52: the four
\* menus are built from the whole file, then the year window, the select
\* boxes, the range bins and the search are applied in that order.
MultiWellPipeline(frame, schema, sel) ==
    IF \E i \in 1..4 : EqCols[i] \notin schema THEN Raise("KeyError")
    ELSE
    LET r0 == Ok(frame, schema)
        r1 == YearStep(r0, sel.win[1], sel.win[2])
        r2 == IF sel.eq[1] = All THEN r1 ELSE RawEqStep(r1, "Operator", sel.eq[1])
        r3 == IF sel.eq[2] = All THEN r2 ELSE RawEqStep(r2, "Contractor", sel.eq[2])
        r4 == IF sel.eq[3] = All THEN r3 ELSE TextEqStep(r3, "flowline_Shakers", sel.eq[3])
        r5 == IF sel.eq[4] = All THEN r4 ELSE RawEqStep(r4, "Hole_Size", sel.eq[4])
        r6 == BinStep(r5, "MD Depth", DepthBins, sel.depth)
        r7 == BinStep(r6, "AMW", MwBins, sel.mw)
    IN  SearchStep(r7, Lower(sel.search))

\* render_advanced_analysis(df) of advanced_analysis.py, lines 61-68: two
\* multiselects; an empty selection leaves the frame as it is.
AdvancedFilter(frame, schema, sel) ==
    IF "flowline_Shakers" \notin schema \/ "Well_Name" \notin schema THEN Raise("KeyError")
    ELSE
    LET a == IF sel.shakers = {} THEN frame
             ELSE BoolIndex(frame, [i \in 1..Len(frame) |->
                      frame[i].v["flowline_Shakers"] \in sel.shakers])
        b == IF sel.wells = {} THEN a
             ELSE BoolIndex(a, [i \in 1..Len(a) |-> a[i].v["Well_Name"] \in sel.wells])
    IN  Ok(b, schema)

----------------------------------------------------------------------------
(* Arithmetic on numbers: a float64 or a Python number is the fraction n/d *)
(* in lowest terms with d > 0, or nan.                                      *)

Abs(n) == IF n < 0 THEN 0 - n ELSE n

RECURSIVE Gcd(_, _)
Gcd(a, b) == IF b = 0 THEN a ELSE Gcd(b, a % b)

\* n/d in lowest terms, d > 0.
Frac(n, d) ==
    LET g == Gcd(Abs(n), d)
    IN  Num(n \div g, d \div g)

\* a Python int as a number.
IntNum(k) == Num(k, 1)

IsNan(x) == x.t # "num"

\* x + y and x - y over the least common denominator; nan propagates.
RAdd(x, y) ==
    IF IsNan(x) \/ IsNan(y) THEN NaN
    ELSE LET g == Gcd(x.d, y.d)
         IN  Frac((x.n * (y.d \div g)) + (y.n * (x.d \div g)), (x.d \div g) * y.d)
RSub(x, y) ==
    IF IsNan(x) \/ IsNan(y) THEN NaN
    ELSE LET g == Gcd(x.d, y.d)
         IN  Frac((x.n * (y.d \div g)) - (y.n * (x.d \div g)), (x.d \div g) * y.d)
\* x * y; nan propagates.
RMul(x, y) == IF IsNan(x) \/ IsNan(y) THEN NaN
              ELSE Frac(x.n * y.n, x.d * y.d)

\* x / y for y other than zero; nan propagates.
RDiv(x, y) == IF IsNan(x) \/ IsNan(y) THEN NaN
              ELSE IF y.n < 0 THEN Frac((0 - x.n) * y.d, x.d * (0 - y.n))
              ELSE Frac(x.n * y.d, x.d * y.n)

\* x >= 0; a comparison with nan is False.
GeZero(x) == x.t = "num" /\ x.n >= 0

\* bool(y): zero is falsy, every other number and nan are truthy.
Truthy(y) == ~(y.t = "num" /\ y.n = 0)

\* The numerator itself where the denominator is zero.
safe_div_unguarded(x, y) == IF Truthy(y) THEN RDiv(x, y) ELSE x

\* def safe_div(x, y): return x / y if y else 0
safe_div(x, y) == IF Truthy(y) THEN RDiv(x, y) ELSE IntNum(0)

\* The values of a column that are not missing, in row order.
Present(rows, col) ==
    SelectSeq([i \in 1..Len(rows) |-> rows[i].v[col]], LAMBDA c : ~IsNA(c))

RECURSIVE SumSeq(_)
SumSeq(xs) == IF xs = << >> THEN IntNum(0) ELSE RAdd(Head(xs), SumSeq(Tail(xs)))

RECURSIVE MaxSeq(_)
MaxSeq(xs) == IF Len(xs) = 1 THEN xs[1]
              ELSE LET m == MaxSeq(Tail(xs))
                   IN  IF GeZero(RSub(Head(xs), m)) THEN Head(xs) ELSE m

\* Series.sum(): missing values are skipped; 0 when nothing is left.
Sum(rows, col) == SumSeq(Present(rows, col))

\* Series.mean(): missing values are skipped; nan when nothing is left.
Mean(rows, col) ==
    LET xs == Present(rows, col)
    IN  IF xs = << >> THEN NaN ELSE RDiv(SumSeq(xs), IntNum(Len(xs)))

\* Series.max(): missing values are skipped; nan when nothing is left.
Max(rows, col) ==
    LET xs == Present(rows, col)
    IN  IF xs = << >> THEN NaN ELSE MaxSeq(xs)

----------------------------------------------------------------------------
(* The cost roll-up and the advanced metrics of app.py                     *)

\* What a computation returns: its value, or the exception that ended it.
Value(v) == [status |-> "ok", val |-> v]
Fail(exc) == [status |-> exc, val |-> << >>]

\* The number inputs of one configuration expander, at their defaults.
DefaultConfig ==
    [dil_rate |-> 100, haul_rate |-> 20, screen_price |-> 500, num_screens |-> 1,
     equip_cost |-> 100000, num_shakers |-> 3, shaker_life |-> 7,
     eng_cost |-> 1000, other_cost |-> 500]

CostFields == {"Cost/ft", "Total Cost", "Dilution", "Haul", "Screen", "Equipment",
               "Engineering", "Other", "Avg LGS%", "DSRE%", "Depth"}

\* The total without the last component.
TotalCostWithoutOther(dilution, haul, screen, equipment, eng_cost, other_cost) ==
    RAdd(RAdd(RAdd(RAdd(dilution, haul), screen), equipment), eng_cost)

\* total = dilution + haul + screen + equipment + eng_cost + other_cost
TotalCost(dilution, haul, screen, equipment, eng_cost, other_cost) ==
    RAdd(RAdd(RAdd(RAdd(RAdd(dilution, haul), screen), equipment), eng_cost), other_cost)

\* The total itself where the interval length is zero.
per_ft_unguarded(total, intlen) ==
    IF Truthy(intlen) THEN RDiv(total, intlen) ELSE total

\* per_ft = total / intlen if intlen else 0
per_ft(total, intlen) ==
    IF Truthy(intlen) THEN RDiv(total, intlen) ELSE IntNum(0)

\* calc_cost(sub_df, config, label) without the label.
calc_cost(sub, config) ==
    IF ~({"Total_Dil", "Haul_OFF", "IntLength"} \subseteq sub.cols) THEN Fail("KeyError")
    ELSE IF config.shaker_life = 0 THEN Fail("ZeroDivisionError")
    ELSE
    LET td        == Sum(sub.rows, "Total_Dil")
        ho        == Sum(sub.rows, "Haul_OFF")
        intlen    == Sum(sub.rows, "IntLength")
        dilution  == RMul(IntNum(config.dil_rate), td)
        haul      == RMul(IntNum(config.haul_rate), ho)
        screen    == IntNum(config.screen_price * config.num_screens)
        equipment == RDiv(IntNum(config.equip_cost * config.num_shakers), IntNum(config.shaker_life))
        total     == TotalCost(dilution, haul, screen, equipment,
                               IntNum(config.eng_cost), IntNum(config.other_cost))
    IN  Value([k \in CostFields |->
            CASE k = "Cost/ft"     -> per_ft(total, intlen)
              [] k = "Total Cost"  -> total
              [] k = "Dilution"    -> dilution
              [] k = "Haul"        -> haul
              [] k = "Screen"      -> screen
              [] k = "Equipment"   -> equipment
              [] k = "Engineering" -> IntNum(config.eng_cost)
              [] k = "Other"       -> IntNum(config.other_cost)
              [] k = "Avg LGS%"    -> IF "LGS" \in sub.cols
                                      THEN RMul(Mean(sub.rows, "LGS"), IntNum(100)) ELSE IntNum(0)
              [] k = "DSRE%"       -> IF "DSRE" \in sub.cols
                                      THEN RMul(Mean(sub.rows, "DSRE"), IntNum(100)) ELSE IntNum(0)
              [] k = "Depth"       -> IF "MD Depth" \in sub.cols
                                      THEN Max(sub.rows, "MD Depth") ELSE IntNum(0)])

\* The manual input parameters of render_advanced_analysis, at their defaults.
DefaultManual == [total_flow_rate |-> IntNum(800), number_of_screens |-> IntNum(3),
                  screen_area |-> IntNum(2)]

MetricNames == {"STE", "CVR", "SLI", "FRC%", "DII", "FLI", "CDR", "MRE%", "DSL"}

\* calculate_advanced_metrics(df) of app.py, with the manual inputs it closes
\* over.
calculate_advanced_metrics(sub, manual) ==
    LET has(c) == c \in sub.cols
        solids_generated == IF has("Solids_Generated")
                            THEN Sum(sub.rows, "Solids_Generated") ELSE IntNum(0)
        discard_ratio    == IF has("Discard Ratio")
                            THEN Mean(sub.rows, "Discard Ratio") ELSE IntNum(0)
        total_solids_removed == RMul(solids_generated, discard_ratio)
        total_solids_in      == solids_generated
        needed == (IF Truthy(total_solids_removed) THEN {"Total_SCE"} ELSE {})
                  \cup {"Haul_OFF", "IntLength", "ROP", "Hole_Size",
                        "Base_Oil", "Water", "Chemicals"}
    IN
    IF ~(needed \subseteq sub.cols) THEN Fail("KeyError")
    ELSE
    LET ste == IF Truthy(total_solids_in)
               THEN RMul(safe_div(total_solids_removed, total_solids_in), IntNum(100))
               ELSE IntNum(0)
        frc == IF Truthy(total_solids_removed)
               THEN RMul(safe_div(Sum(sub.rows, "Total_SCE"), total_solids_removed), IntNum(100))
               ELSE IntNum(0)
        mre == RSub(IntNum(100), frc)
        dsl == RSub(IntNum(100), ste)
        intlen == Sum(sub.rows, "IntLength")
        fluids == RAdd(RAdd(Sum(sub.rows, "Base_Oil"), Sum(sub.rows, "Water")),
                       Sum(sub.rows, "Chemicals"))
    IN  Value([k \in MetricNames |->
            CASE k = "STE"  -> ste
              [] k = "CVR"  -> safe_div(Sum(sub.rows, "Haul_OFF"), intlen)
              [] k = "SLI"  -> safe_div(manual.total_flow_rate,
                                        RMul(manual.number_of_screens, manual.screen_area))
              [] k = "FRC%" -> frc
              [] k = "DII"  -> safe_div(Mean(sub.rows, "ROP"), Mean(sub.rows, "Hole_Size"))
              [] k = "FLI"  -> safe_div(fluids, intlen)
              [] k = "CDR"  -> safe_div(Sum(sub.rows, "Chemicals"), intlen)
              [] k = "MRE%" -> mre
              [] k = "DSL"  -> dsl])

\* {k: safe_div(v, total) for k, v in metrics.items()}, total the sum of col.
Normalized(sub, metrics, col) ==
    LET total == Sum(sub.rows, col)
    IN  [k \in MetricNames |-> safe_div(metrics[k], total)]

----------------------------------------------------------------------------
(* Inputs                                                                  *)

\* A file has every column, or lacks one the filters refer to.
Schemas ==
    {Cols} \cup {Cols \ {c} : c \in {"Operator", "Contractor", "flowline_Shakers",
                                     "Hole_Size", "TD_Date", "MD Depth", "AMW", "Well_Name"}}

\* Columns the cost roll-up and the advanced metrics read: some behind an
\* `in df.columns` test (LGS, MD Depth, Solids_Generated, Discard Ratio), the
\* others directly.
MetricCols ==
    {"Total_Dil", "Haul_OFF", "LGS", "MD Depth", "Solids_Generated", "Discard Ratio",
     "Total_SCE", "Drilling_Hours"}

\* A file that lacks one of the metric columns.
MetricSchemas == {Cols \ {c} : c \in MetricCols}

\* What a select box without entries returns.
None == [t |-> "none", s |-> << >>, n |-> 0, d |-> 1]

\* The four select boxes of one column of the Cost Estimator.
DefaultGroup == [shaker |-> None, operator |-> All, contractor |-> All, well |-> All]

\* Values typed into a configuration expander: the defaults, a shaker life of
\* zero, another dilution rate.
Configs ==
    {DefaultConfig, [DefaultConfig EXCEPT !.shaker_life = 0],
     [DefaultConfig EXCEPT !.dil_rate = 150]}

\* Values typed into the manual input parameters.
Manuals ==
    {DefaultManual, [DefaultManual EXCEPT !.number_of_screens = IntNum(0)],
     [DefaultManual EXCEPT !.total_flow_rate = IntNum(0)],
     [DefaultManual EXCEPT !.screen_area = Frac(5, 2)]}

\* Search terms typed on the Advanced Analysis page.
MetricSearchTerms == { << >>, tDerrick, << "x","y","z" >> }

\* The widgets of the metric pages before a run.
DefaultInp ==
    [manual |-> DefaultManual, d |-> DefaultGroup, nd |-> DefaultGroup,
     derrick_config |-> DefaultConfig, nond_config |-> DefaultConfig]

\* Nothing computed.
NoOut ==
    [metrics |-> << >>, norm_per_foot |-> << >>, norm_per_hr |-> << >>,
     derrick_df |-> << >>, nond_df |-> << >>,
     derrick_cost |-> << >>, nond_cost |-> << >>,
     delta_total |-> None, delta_ft |-> None,
     text_color_total |-> "", text_color_ft |-> ""]

----------------------------------------------------------------------------
(* State                                                                   *)

VARIABLES
    df,        \* the frame read_csv returned
    schema,    \* the columns of the file
    page,      \* the filter function that ran, "none" before the run
    sel,       \* what the sidebar widgets returned in the run
    filtered,  \* the rows of the frame the function returned
    fcols,     \* the columns of the frame the function returned
    inp,       \* what the widgets of the metric pages returned in the run
    out,       \* what the metric pages computed in the run
    status     \* "idle", "ok", or the exception that ended the run

vars == << df, schema, page, sel, filtered, fcols, inp, out, status >>

Init ==
    /\ df \in {ReadCsv(f) : f \in Files}
    /\ schema = Cols
    /\ page = "none"
    /\ sel = DefaultSel
    /\ filtered = << >>
    /\ fcols = {}
    /\ inp = DefaultInp
    /\ out = NoOut
    /\ status = "idle"

\* The file lacks one of the columns the filters refer to.
InitSchema ==
    /\ df \in {ReadCsv(f) : f \in Files}
    /\ schema \in Schemas \ {Cols}
    /\ page = "none"
    /\ sel = DefaultSel
    /\ filtered = << >>
    /\ fcols = {}
    /\ inp = DefaultInp
    /\ out = NoOut
    /\ status = "idle"

\* The run's outcome r under selections s is what the page shows.
Finish(name, s, r) ==
    /\ page' = name
    /\ sel' = s
    /\ filtered' = r.rows
    /\ fcols' = r.cols
    /\ status' = r.status
    /\ inp' = DefaultInp
    /\ out' = NoOut
    /\ UNCHANGED << df, schema >>

\* 1 if a widget is away from its default, else 0.
Moved(value, default) == IF value = default THEN 0 ELSE 1

\* app.py: the script loads the file (lines 391-392) and a page calls
\* apply_shared_filters(df); each widget returns an entry of its menu.  (The
\* frame each step leaves is bound once, with \E over a one-element set.)
AppFilter ==
    /\ status = "idle"
    /\ \E r0 \in {LoadStep(df, schema)} :
       \E t \in Offered(r0, SearchTerms, << >>) :
       \E r1 \in {SearchStep(r0, Lower(t))} :
       \E e1 \in Menu(r1, EqCols[1], TRUE) :
       \E r2 \in {TextSelectStep(r1, EqCols[1], e1)} :
       \E e2 \in Menu(r2, EqCols[2], TRUE) :
       \E r3 \in {TextSelectStep(r2, EqCols[2], e2)},
          n3 \in {Moved(t, << >>) + Moved(e1, All) + Moved(e2, All)} :
       /\ n3 <= MaxActive
       /\ \E e3 \in Menu(r3, EqCols[3], TRUE) :
          \E r4 \in {TextSelectStep(r3, EqCols[3], e3)}, n4 \in {n3 + Moved(e3, All)} :
          /\ n4 <= MaxActive
          /\ \E e4 \in Menu(r4, EqCols[4], TRUE) :
             \E r5 \in {TextSelectStep(r4, EqCols[4], e4)}, n5 \in {n4 + Moved(e4, All)} :
             /\ n5 <= MaxActive
             /\ \E w \in Offered(YearStep(r5, SliderMin, SliderMax), YearWindows,
                                  << SliderMin, SliderMax >>) :
                \E r6 \in {YearStep(r5, w[1], w[2])},
                   n6 \in {n5 + Moved(w, << SliderMin, SliderMax >>)} :
                /\ n6 <= MaxActive
                /\ \E dp \in Offered(r6, {"All"} \cup BinNames(DepthBins), "All") :
                   \E r7 \in {BinStep(r6, "MD Depth", DepthBins, dp)},
                      n7 \in {n6 + Moved(dp, "All")} :
                   /\ n7 <= MaxActive
                   /\ \E mw \in Offered(r7, {"All"} \cup BinNames(MwBins), "All") :
                      /\ n7 + Moved(mw, "All") <= MaxActive
                      /\ Finish("apply_shared_filters",
                                [DefaultSel EXCEPT !.search = t, !.eq = << e1, e2, e3, e4 >>,
                                                   !.win = w, !.depth = dp, !.mw = mw],
                                BinStep(r7, "AMW", MwBins, mw))

\* multi_well_comparison.py: render_multi_well_page().  Every widget is read
\* (lines 13-32) before the first filter is applied; a menu whose column is
\* missing ends the run before the widgets after it.
MultiWellFilter ==
    /\ status = "idle"
    /\ LET r0 == Ok(df, schema)
           reached(i) == \A j \in 1..i : EqCols[j] \in schema
           menu(i) == IF reached(i) THEN Menu(r0, EqCols[i], i = 3) ELSE {All}
           rest(entries, default) == IF reached(4) THEN entries ELSE {default}
       IN
       \E e1 \in menu(1), e2 \in menu(2) :
       /\ Moved(e1, All) + Moved(e2, All) <= MaxActive
       /\ \E e3 \in menu(3), e4 \in menu(4) :
          LET n4 == Moved(e1, All) + Moved(e2, All) + Moved(e3, All) + Moved(e4, All)
          IN
          /\ n4 <= MaxActive
          /\ \E dp \in rest({"All"} \cup BinNames(DepthBins), "All") :
             /\ n4 + Moved(dp, "All") <= MaxActive
             /\ \E mw \in rest({"All"} \cup BinNames(MwBins), "All") :
                LET n6 == n4 + Moved(dp, "All") + Moved(mw, "All")
                IN
                /\ n6 <= MaxActive
                /\ \E w \in rest(YearWindows, << SliderMin, SliderMax >>) :
                   LET n7 == n6 + Moved(w, << SliderMin, SliderMax >>)
                   IN
                   /\ n7 <= MaxActive
                   /\ \E t \in rest(SearchTerms, << >>) :
                      LET s == [DefaultSel EXCEPT !.search = t, !.eq = << e1, e2, e3, e4 >>,
                                                  !.win = w, !.depth = dp, !.mw = mw]
                      IN
                      /\ n7 + Moved(t, << >>) <= MaxActive
                      /\ Finish("render_multi_well_page", s,
                                MultiWellPipeline(df, schema, s))

\* advanced_analysis.py: the filters of render_advanced_analysis(df); each
\* multiselect returns a subset of the values of its column.
AdvancedAnalysisFilter ==
    /\ status = "idle"
    /\ \E a \in SUBSET (IF "flowline_Shakers" \in schema
                        THEN RawOptions(df, "flowline_Shakers") ELSE {}) :
       \E b \in SUBSET (IF {"flowline_Shakers", "Well_Name"} \subseteq schema
                        THEN RawOptions(df, "Well_Name") ELSE {}) :
          LET s == [DefaultSel EXCEPT !.shakers = a, !.wells = b]
          IN  /\ Cardinality(a) + Cardinality(b) <= MaxActive
              /\ Finish("render_advanced_analysis", s, AdvancedFilter(df, schema, s))

\* A widget changes and Streamlit runs the script again from the top.
Rerun ==
    /\ status # "idle"
    /\ page' = "none"
    /\ sel' = DefaultSel
    /\ filtered' = << >>
    /\ fcols' = {}
    /\ inp' = DefaultInp
    /\ out' = NoOut
    /\ status' = "idle"
    /\ UNCHANGED << df, schema >>

\* The first exception among the outcomes, in the order they are computed.
FirstStatus(outcomes) ==
    IF \A i \in 1..Len(outcomes) : outcomes[i].status = "ok" THEN "ok"
    ELSE outcomes[CHOOSE i \in 1..Len(outcomes) :
                    /\ outcomes[i].status # "ok"
                    /\ \A j \in 1..(i - 1) : outcomes[j].status = "ok"].status

\* app.py: render_advanced_analysis(df), lines 284-344: the manual inputs,
\* apply_shared_filters, the nine metrics and their normalization.  The search
\* box, the shaker select box and the year slider are moved; the other
\* widgets of the sidebar stay at their defaults.  (A value computed once in
\* the code is bound once, with \E over a one-element set.)
AdvancedAnalysis ==
    /\ status = "idle"
    /\ \E r0 \in {LoadStep(df, schema)} :
       \E t \in Offered(r0, MetricSearchTerms, << >>) :
       \E r3 \in {TextSelectStep(TextSelectStep(SearchStep(r0, Lower(t)),
                                                EqCols[1], All), EqCols[2], All)} :
       \E e3 \in Menu(r3, EqCols[3], TRUE) :
       \E r5 \in {TextSelectStep(TextSelectStep(r3, EqCols[3], e3), EqCols[4], All)} :
       \E w \in Offered(r5, YearWindows, << SliderMin, SliderMax >>) :
       \E n6 \in {Moved(t, << >>) + Moved(e3, All) + Moved(w, << SliderMin, SliderMax >>)} :
       /\ n6 <= MaxActive
       /\ \E filtered_df \in {BinStep(BinStep(YearStep(r5, w[1], w[2]),
                                               "MD Depth", DepthBins, "All"),
                                       "AMW", MwBins, "All")} :
          \E m \in Manuals :
          /\ n6 + Moved(m, DefaultManual) <= MaxActive
          /\ \E metrics \in {IF filtered_df.status = "ok"
                               THEN calculate_advanced_metrics(filtered_df, m)
                               ELSE Fail(filtered_df.status)} :
             \E st \in {IF metrics.status # "ok" THEN metrics.status
                         ELSE IF {"IntLength", "Drilling_Hours"} \subseteq filtered_df.cols
                         THEN "ok" ELSE "KeyError"} :
             /\ page' = "app.render_advanced_analysis"
             /\ sel' = [DefaultSel EXCEPT !.search = t, !.eq[3] = e3, !.win = w]
             /\ filtered' = filtered_df.rows
             /\ fcols' = filtered_df.cols
             /\ inp' = [DefaultInp EXCEPT !.manual = m]
             /\ status' = st
             /\ out' = IF st # "ok" THEN NoOut
                       ELSE [NoOut EXCEPT
                               !.metrics = metrics.val,
                               !.norm_per_foot =
                                   Normalized(filtered_df, metrics.val, "IntLength"),
                               !.norm_per_hr =
                                   Normalized(filtered_df, metrics.val, "Drilling_Hours")]
             /\ UNCHANGED << df, schema >>

\* frame = frame[frame[col] == choice] under a select box with an "All"
\* entry; the menu is built from the column whatever the choice.
RawSelectStep(r, col, choice) ==
    IF r.status # "ok" THEN r
    ELSE IF col \notin r.cols THEN Raise("KeyError")
    ELSE IF choice = All THEN r
    ELSE RawEqStep(r, col, choice)

\* The characters of the texts in code-point order, as sorted() compares them.
CharOrder == << "&", "-" >> \o DigitChars \o UpperChars \o LowerChars
Ord(c) == CHOOSE i \in 1..Len(CharOrder) : CharOrder[i] = c

RECURSIVE TextLess(_, _)
\* a < b for two str objects.
TextLess(a, b) ==
    IF b = << >> THEN FALSE
    ELSE IF a = << >> THEN TRUE
    ELSE IF Head(a) # Head(b) THEN Ord(Head(a)) < Ord(Head(b))
    ELSE TextLess(Tail(a), Tail(b))

\* sorted(options)[0], the entry a select box shows before it is touched.
FirstSorted(options) ==
    CHOOSE x \in options : \A y \in options \ {x} : TextLess(x.s, y.s)

\* The shaker menu with an "All" entry before its values.
ShakerMenuWithAll(r) ==
    IF r.status # "ok" \/ "flowline_Shakers" \notin r.cols THEN {None}
    ELSE {All} \cup RawOptions(r.rows, "flowline_Shakers")

\* The shaker select box: the values of the column, and no "All" entry.
ShakerMenu(r) ==
    IF r.status # "ok" \/ "flowline_Shakers" \notin r.cols THEN {None}
    ELSE IF RawOptions(r.rows, "flowline_Shakers") = {} THEN {None}
    ELSE RawOptions(r.rows, "flowline_Shakers")

\* One column of render_cost_estimator (lines 129-148, 150-169): the subset
\* left by the shaker, operator, contractor and well select boxes.
Cascade(r0, g) ==
    LET r1 == RawEqStep(r0, "flowline_Shakers", g.shaker)
        r2 == RawSelectStep(r1, "Operator", g.operator)
        r3 == RawSelectStep(r2, "Contractor", g.contractor)
    IN  RawSelectStep(r3, "Well_Name", g.well)

\* The choices the four select boxes of one column allow, each menu built
\* from the subset the boxes before it left.
GroupChoices(r0) ==
    UNION { UNION { UNION {
        { [shaker |-> sh, operator |-> op, contractor |-> co, well |-> we] :
            we \in Menu(Cascade(r0, [shaker |-> sh, operator |-> op,
                                     contractor |-> co, well |-> All]),
                        "Well_Name", FALSE) } :
        co \in Menu(Cascade(r0, [shaker |-> sh, operator |-> op,
                                 contractor |-> All, well |-> All]),
                    "Contractor", FALSE) } :
        op \in Menu(Cascade(r0, [shaker |-> sh, operator |-> All,
                                 contractor |-> All, well |-> All]),
                    "Operator", FALSE) } :
        sh \in ShakerMenu(r0) }

\* The select boxes of a column that are away from their first entries.
GroupMoved(g, first) ==
    Moved(g.shaker, first)
    + Moved(g.operator, All) + Moved(g.contractor, All) + Moved(g.well, All)

\* The difference taken the other way round.
DeltaSwapped(nond, derrick) == RSub(derrick, nond)

\* delta = nond_cost[key] - derrick_cost[key]
Delta(nond, derrick) == RSub(nond, derrick)

\* text_color = "green" if delta >= 0 else "red"
TextColor(delta) == IF GeZero(delta) THEN "green" ELSE "red"

\* app.py: render_cost_estimator(df), lines 124-231: the two cascades, the
\* two configurations, calc_cost for each group, the differences and their
\* colours.  (A value computed once in the code is bound once, with \E over
\* a one-element set.)
CostEstimator ==
    /\ status = "idle"
    /\ \E r0 \in {LoadStep(df, schema)} :
       \E choices \in {GroupChoices(r0)}, first \in {FirstSorted(ShakerMenu(r0))} :
       \E d \in choices, dc \in Configs :
       \E n1 \in {GroupMoved(d, first) + Moved(dc, DefaultConfig)} :
       /\ n1 <= MaxActive
       /\ \E nd \in choices, nc \in Configs :
          /\ n1 + GroupMoved(nd, first) + Moved(nc, DefaultConfig) <= MaxActive
          /\ \E derrick_df \in {Cascade(r0, d)}, nond_df \in {Cascade(r0, nd)} :
             \E derrick_cost \in {IF derrick_df.status = "ok" /\ nond_df.status = "ok"
                                   THEN calc_cost(derrick_df, dc) ELSE Fail("skipped")} :
             \E nond_cost \in {IF derrick_cost.status = "ok"
                                THEN calc_cost(nond_df, nc) ELSE Fail("skipped")} :
             \E st \in {FirstStatus(<< derrick_df, nond_df, derrick_cost, nond_cost >>)} :
             /\ page' = "render_cost_estimator"
             /\ sel' = DefaultSel
             /\ filtered' = << >>
             /\ fcols' = {}
             /\ inp' = [DefaultInp EXCEPT !.d = d, !.nd = nd,
                                          !.derrick_config = dc, !.nond_config = nc]
             /\ status' = st
             /\ out' = IF st # "ok" THEN NoOut
                       ELSE [NoOut EXCEPT
                               !.derrick_df = derrick_df.rows,
                               !.nond_df = nond_df.rows,
                               !.derrick_cost = derrick_cost.val,
                               !.nond_cost = nond_cost.val,
                               !.delta_total = Delta(nond_cost.val["Total Cost"],
                                                     derrick_cost.val["Total Cost"]),
                               !.delta_ft = Delta(nond_cost.val["Cost/ft"],
                                                  derrick_cost.val["Cost/ft"]),
                               !.text_color_total =
                                   TextColor(Delta(nond_cost.val["Total Cost"],
                                                   derrick_cost.val["Total Cost"])),
                               !.text_color_ft =
                                   TextColor(Delta(nond_cost.val["Cost/ft"],
                                                   derrick_cost.val["Cost/ft"]))]
             /\ UNCHANGED << df, schema >>

\* The file lacks one of the columns the metrics read.
InitMetricSchema ==
    /\ df \in {ReadCsv(f) : f \in Files}
    /\ schema \in MetricSchemas
    /\ page = "none"
    /\ sel = DefaultSel
    /\ filtered = << >>
    /\ fcols = {}
    /\ inp = DefaultInp
    /\ out = NoOut
    /\ status = "idle"

\* The file as the scripts hand it to their pages: read, then its TD_Date
\* column converted (app.py 391-392, advanced_analysis.py 232-233).
InitLoaded ==
    /\ df \in {ConvertDates(ReadCsv(f), "TD_Date") : f \in Files}
    /\ schema = Cols
    /\ page = "none"
    /\ sel = DefaultSel
    /\ filtered = << >>
    /\ fcols = {}
    /\ inp = DefaultInp
    /\ out = NoOut
    /\ status = "idle"

\* Every date of the column replaced by NaT.
AssignTDDateCoerced(frame) ==
    [i \in 1..Len(frame) |-> [frame[i] EXCEPT !.v["TD_Date"] = NaT]]

\* df["TD_Date"] = pd.to_datetime(df["TD_Date"], errors='coerce') inside
\* render_multi_well_page(df): the column is assigned in the caller's frame.
AssignTDDate(frame) == ConvertDates(frame, "TD_Date")

\* advanced_analysis.py: render_multi_well_page(df), lines 116-160: the menus
\* are built from the caller's frame, line 142 assigns its TD_Date column, and
\* from line 143 on the name df is bound to new, filtered frames.
AdvancedMultiWellPage ==
    /\ status = "idle"
    /\ \E r0 \in {Ok(df, schema)} :
       \E e1 \in Menu(r0, EqCols[1], FALSE), e2 \in Menu(r0, EqCols[2], FALSE) :
       /\ Moved(e1, All) + Moved(e2, All) <= MaxActive
       /\ \E e3 \in Menu(r0, EqCols[3], TRUE), e4 \in Menu(r0, EqCols[4], FALSE) :
          \E n4 \in {Moved(e1, All) + Moved(e2, All) + Moved(e3, All) + Moved(e4, All)} :
          /\ n4 <= MaxActive
          /\ \E dp \in {"All"} \cup BinNames(DepthBins), mw \in {"All"} \cup BinNames(MwBins) :
             \E n6 \in {n4 + Moved(dp, "All") + Moved(mw, "All")} :
             /\ n6 <= MaxActive
             /\ \E w \in YearWindows, t \in SearchTerms :
                /\ n6 + Moved(w, << SliderMin, SliderMax >>) + Moved(t, << >>) <= MaxActive
                /\ \E s \in {[DefaultSel EXCEPT !.search = t, !.eq = << e1, e2, e3, e4 >>,
                                                 !.win = w, !.depth = dp, !.mw = mw]},
                      assigned \in {AssignTDDate(df)} :
                   \E r \in {MultiWellPipeline(assigned, schema, s)} :
                   /\ df' = assigned
                   /\ page' = "advanced_analysis.render_multi_well_page"
                   /\ sel' = s
                   /\ filtered' = r.rows
                   /\ fcols' = r.cols
                   /\ status' = r.status
                   /\ inp' = DefaultInp
                   /\ out' = NoOut
                   /\ UNCHANGED schema

\* The names bound in the module namespace of app.py when line 365 is
\* reached: the imports and the functions defined above it.
ModuleNames ==
    {"st", "pd", "px", "go", "np", "datetime", "load_styles", "apply_shared_filters",
     "render_multi_well", "render_sales_analysis", "render_cost_estimator",
     "render_advanced_analysis"}

\* Evaluating a name at module level.
NameLookup(name) == IF name \in ModuleNames THEN "ok" ELSE "NameError"

\* app.py lines 365-386, at module level: the names the section evaluates,
\* in the order it evaluates them; the first that is not bound ends the run.
VisualizationsSection ==
    FirstStatus([i \in 1..4 |->
        [status |-> NameLookup(<< "st", "metrics", "filtered_df", "px" >>[i])]])

\* st.sidebar.radio("Navigate", [...]): the entries and the function the
\* dispatch calls for each.
NavPages == {"Multi-Well Comparison", "Sales Analysis", "Advanced Analysis", "Cost Estimator"}
PageFunction(choice) ==
    CASE choice = "Multi-Well Comparison" -> "render_multi_well"
      [] choice = "Sales Analysis"        -> "render_sales_analysis"
      [] choice = "Advanced Analysis"     -> "render_advanced_analysis"
      [] choice = "Cost Estimator"        -> "render_cost_estimator"

\* app.py, one run of the script from the top: the definitions, the
\* module-level section of lines 365-386, then lines 389-402: the file is
\* loaded and the function of the chosen page is called with it.  (What each
\* page function does with the frame is AppFilter, AdvancedAnalysis and
\* CostEstimator.)
RunApp ==
    /\ status = "idle"
    /\ \E vis \in {VisualizationsSection} :
       IF vis # "ok"
       THEN /\ page' = "app.py"
            /\ status' = vis
            /\ filtered' = << >>
            /\ fcols' = {}
       ELSE \E choice \in NavPages, r0 \in {LoadStep(df, schema)} :
            /\ page' = PageFunction(choice)
            /\ status' = r0.status
            /\ filtered' = r0.rows
            /\ fcols' = r0.cols
    /\ sel' = DefaultSel
    /\ inp' = DefaultInp
    /\ out' = NoOut
    /\ UNCHANGED << df, schema >>

Next == AppFilter \/ MultiWellFilter \/ AdvancedAnalysisFilter \/ Rerun

\* The metric pages of app.py.
NextMetrics == AdvancedAnalysis \/ CostEstimator \/ Rerun

Spec == Init /\ [][Next]_vars

\* The same pages over files that lack a column.
SpecSchema == InitSchema /\ [][Next]_vars

\* The Advanced Analysis and Cost Estimator pages over files with every column.
SpecMetrics == Init /\ [][NextMetrics]_vars

\* The same two pages over files that lack a metric column.
SpecMetricSchema == InitMetricSchema /\ [][NextMetrics]_vars

\* Runs of the script app.py, one after the other.
NextScript == RunApp \/ Rerun

SpecScript == Init /\ [][NextScript]_vars

\* The pages that are handed the loaded file by their caller.
NextSource ==
    \/ AppFilter
    \/ AdvancedAnalysis
    \/ CostEstimator
    \/ AdvancedAnalysisFilter
    \/ AdvancedMultiWellPage
    \/ Rerun

SpecSource == InitLoaded /\ [][NextSource]_vars

----------------------------------------------------------------------------
(* Properties of the filter pipelines                                      *)

\* The index labels of a frame, in frame order.
Labels(frame) == [i \in 1..Len(frame) |-> frame[i].idx]

\* One of the two sidebar pipelines returned a frame.
Returned == status = "ok" /\ page \in {"apply_shared_filters", "render_multi_well_page"}

\* The row of the loaded file with index label k.
Source(k) == df[k + 1]

\* The labels of the rows of the loaded file that satisfy P, in file order.
LabelsWhere(P(_)) == Labels(SelectSeq(df, P))

\* C1: the records any filter function returns are a sub-sequence of the
\* loaded file: each carries the label and the values of a record of the
\* file (the date column possibly converted), labels strictly increase, so
\* nothing is duplicated or reordered.
C1_SubSequence ==
    status = "ok" =>
        /\ \A i \in 1..Len(filtered) :
              /\ filtered[i].idx \in 0..(Len(df) - 1)
              /\ \A c \in Cols \ {"TD_Date"} : filtered[i].v[c] = Source(filtered[i].idx).v[c]
              /\ filtered[i].v["TD_Date"] \in
                     { Source(filtered[i].idx).v["TD_Date"],
                       ToDatetime(Source(filtered[i].idx).v["TD_Date"]) }
        /\ \A i, j \in 1..Len(filtered) : i < j => filtered[i].idx < filtered[j].idx

\* C1 witness: apply_shared_filters kept the first and the third of three
\* records and dropped the second.
C1_Witness ==
    /\ page = "apply_shared_filters" /\ status = "ok"
    /\ Len(df) = 3 /\ Labels(filtered) = << 0, 2 >>

\* The date of a record of the file parses and its year lies in [lo, hi].
YearWithin(row, lo, hi) ==
    LET dt == ToDatetime(row.v["TD_Date"])
    IN  dt.t = "date" /\ lo <= Year(dt) /\ Year(dt) <= hi

\* C2 as stated: with every widget at its default the pipeline returns every
\* record of the file, whatever the dates.
C2_DefaultsAreIdentity ==
    (Returned /\ sel = DefaultSel) => Labels(filtered) = Labels(df)

\* C2 amended: with every widget at its default the pipeline returns every
\* record of a file whose dates all parse to a year within 2020..2026.
C2_DefaultsAreIdentityOnDatedFiles ==
    ( /\ Returned /\ sel = DefaultSel
      /\ \A i \in 1..Len(df) : YearWithin(df[i], SliderMin, SliderMax) )
    => Labels(filtered) = Labels(df)

\* C2 witness: a default run over two or more records, all dated in the window.
C2_Witness ==
    /\ Returned /\ sel = DefaultSel /\ Len(df) >= 2
    /\ \A i \in 1..Len(df) : YearWithin(df[i], SliderMin, SliderMax)
    /\ Labels(filtered) = Labels(df)

\* C3: a filter whose column the file lacks is skipped; no run over such a
\* file ends in an exception.
C3_MissingColumnSkipped == schema # Cols => status \in {"idle", "ok"}

\* The labels of the records of the file a bin selection keeps.
KeptLabels(col, bins, name) ==
    LET r == BinStep(Ok(df, Cols), col, bins, name)
    IN  {r.rows[i].idx : i \in 1..Len(r.rows)}

\* The bins of a range select box that keep the record with label k.
BinsKeeping(k, col, bins) == {b \in BinNames(bins) : k \in KeptLabels(col, bins, b)}

\* Only the range select boxes are away from their defaults.
OnlyBins == sel = [DefaultSel EXCEPT !.depth = sel.depth, !.mw = sel.mw]

\* C5 as stated: in a file a page filtered, every record with a depth is kept
\* by exactly one depth bin and every record with a mud weight by exactly one
\* mud-weight bin.
C5_BinsPartition ==
    Returned =>
    \A i \in 1..Len(df) :
        /\ ~IsNA(df[i].v["MD Depth"]) => Cardinality(BinsKeeping(df[i].idx, "MD Depth", DepthBins)) = 1
        /\ ~IsNA(df[i].v["AMW"]) => Cardinality(BinsKeeping(df[i].idx, "AMW", MwBins)) = 1

\* C5 amended: no record is kept by two bins of one select box; a record with
\* a depth of 0 or more is kept by exactly one depth bin, and a record with a
\* mud weight from 0 up to, not including, the top of the last bin by exactly
\* one mud-weight bin; and a run with only range bins selected returns the
\* records both selections keep, among those the default year window keeps.
C5_BinsPartitionWithinRange ==
    Returned =>
    /\ OnlyBins =>
          {filtered[i].idx : i \in 1..Len(filtered)}
            = {k \in KeptLabels("MD Depth", DepthBins, sel.depth)
                       \cap KeptLabels("AMW", MwBins, sel.mw) :
                  YearWithin(Source(k), SliderMin, SliderMax)}
    /\ \A i \in 1..Len(df) :
        /\ Cardinality(BinsKeeping(df[i].idx, "MD Depth", DepthBins)) <= 1
        /\ Cardinality(BinsKeeping(df[i].idx, "AMW", MwBins)) <= 1
        /\ NumGE(df[i].v["MD Depth"], 0)
              => Cardinality(BinsKeeping(df[i].idx, "MD Depth", DepthBins)) = 1
        /\ (NumGE(df[i].v["AMW"], 0) /\ NumLT(df[i].v["AMW"], MwBins[Len(MwBins)].high))
              => Cardinality(BinsKeeping(df[i].idx, "AMW", MwBins)) = 1

\* C5 witness: a run with the second depth bin selected kept a record whose
\* depth is the bin's lower edge, 5000.
C5_Witness ==
    /\ Returned /\ sel.depth = "5000-10000 ft"
    /\ \E i \in 1..Len(filtered) : filtered[i].v["MD Depth"] = Num(5000, 1)

\* Only the year slider is away from its default.
OnlyWindow == sel = [DefaultSel EXCEPT !.win = sel.win]

\* C7: the year window keeps exactly the records whose date parses to a year
\* y with start <= y <= end; a record whose date is missing or does not parse
\* is never returned.
C7_YearWindowInclusive ==
    Returned =>
        /\ \A i \in 1..Len(filtered) :
              YearWithin(Source(filtered[i].idx), sel.win[1], sel.win[2])
        /\ OnlyWindow =>
              Labels(filtered)
                 = LabelsWhere(LAMBDA row : YearWithin(row, sel.win[1], sel.win[2]))

\* C7 witness: window [2021, 2022] over dates 2020-01-01, 2021-06-01 and a
\* missing one kept only the second record.
C7_Witness ==
    /\ Returned /\ OnlyWindow /\ sel.win = << 2021, 2022 >>
    /\ Len(df) = 3
    /\ df[1].v["TD_Date"] = Rec1["TD_Date"]
    /\ df[2].v["TD_Date"] = Rec2["TD_Date"]
    /\ df[3].v["TD_Date"] = NaN
    /\ Labels(filtered) = << 1 >>

\* A record of the file satisfies each criterion of selection s on its own,
\* as page pg compares it.
Satisfies(row, s, pg) ==
    LET conv == [row EXCEPT !.v["TD_Date"] = ToDatetime(@)]
    IN  /\ s.search = << >> \/ RowMatches(conv, Cols, Lower(s.search))
        /\ \A i \in 1..3 : s.eq[i] = All \/ Str(CellStr(row.v[EqCols[i]])) = s.eq[i]
        /\ \/ s.eq[4] = All
           \/ pg = "apply_shared_filters" /\ CellStr(row.v["Hole_Size"]) = s.eq[4].s
           \/ pg = "render_multi_well_page" /\ row.v["Hole_Size"] = s.eq[4]
        /\ YearWithin(row, s.win[1], s.win[2])
        /\ s.depth = "All" \/ InBin(row.v["MD Depth"], BinOf(DepthBins, s.depth))
        /\ s.mw = "All" \/ InBin(row.v["AMW"], BinOf(MwBins, s.mw))

\* C8: a pipeline that returns, returns exactly the records of the file that
\* satisfy every criterion on their own; and the other pipeline, applying the
\* criteria in its own order, returns the same records.
C8_ConjunctionOfCriteria ==
    Returned =>
        /\ Labels(filtered) = LabelsWhere(LAMBDA row : Satisfies(row, sel, page))
        /\ (page = "apply_shared_filters" /\ sel.eq[4] = All) =>
              LET other == MultiWellPipeline(df, schema, sel)
              IN  other.status = "ok" => Labels(other.rows) = Labels(filtered)
        /\ (page = "render_multi_well_page" /\ sel.eq[4] = All) =>
              LET other == ApplySharedFilters(LoadStep(df, schema), sel)
              IN  other.status = "ok" => Labels(other.rows) = Labels(filtered)

\* C8 witness: a run with a select box and a range bin both set returned
\* some but not all records of the file.
C8_Witness ==
    /\ Returned /\ page = "apply_shared_filters"
    /\ sel.eq[1] # All /\ sel.depth # "All"
    /\ Len(filtered) >= 1 /\ Len(filtered) < Len(df)

\* C9: apply_shared_filters applied to the frame it returned, under the same
\* selections, returns that frame again.
C9_Idempotent ==
    (page = "apply_shared_filters" /\ status = "ok") =>
        LET again == ApplySharedFilters(Ok(filtered, fcols), sel)
        IN  again.status = "ok" /\ again.rows = filtered

\* Only the search box is away from its default.
OnlySearch == sel = [DefaultSel EXCEPT !.search = sel.search]

\* Some attribute's lower-cased text contains the lower-cased term.
HasSubstring(row, term) ==
    LET conv == [row EXCEPT !.v["TD_Date"] = ToDatetime(@)]
    IN  \E c \in Cols : Contains(Lower(CellStr(conv.v[c])), Lower(term))

\* C10: a run over a file with records and with only the search term set
\* returns, and returns exactly the records (among those the default year
\* window keeps) one of whose attributes contains the term as a substring,
\* case-insensitively.
C10_SearchIsSubstring ==
    ( /\ page \in {"apply_shared_filters", "render_multi_well_page"}
      /\ OnlySearch /\ df # << >> ) =>
        /\ status = "ok"
        /\ Labels(filtered)
              = LabelsWhere(LAMBDA row : /\ YearWithin(row, SliderMin, SliderMax)
                                         /\ HasSubstring(row, sel.search))

----------------------------------------------------------------------------
(* The metric pages                                                        *)

Zero == IntNum(0)

\* The Advanced Analysis page of app.py computed its metrics.
MetricsShown == page = "app.render_advanced_analysis" /\ status = "ok"

\* The Cost Estimator computed both breakdowns.
CostsShown == page = "render_cost_estimator" /\ status = "ok"

\* C4: no run of a metric page over a file with records ends in a division
\* error, and every ratio whose denominator is zero is zero: the cost per
\* foot over a summed interval length of zero, the metrics divided by the
\* summed interval length, the mean hole size or the screen area, and the
\* per-foot and per-hour values over zero feet or zero hours.
C4_ZeroDenominatorYieldsZero ==
    df # << >> =>
    /\ status # "ZeroDivisionError"
    /\ CostsShown =>
          /\ Sum(out.derrick_df, "IntLength") = Zero => out.derrick_cost["Cost/ft"] = Zero
          /\ Sum(out.nond_df, "IntLength") = Zero => out.nond_cost["Cost/ft"] = Zero
    /\ MetricsShown =>
          /\ Sum(filtered, "IntLength") = Zero =>
                /\ \A k \in {"CVR", "FLI", "CDR"} : out.metrics[k] = Zero
                /\ \A k \in MetricNames : out.norm_per_foot[k] = Zero
          /\ Sum(filtered, "Drilling_Hours") = Zero =>
                \A k \in MetricNames : out.norm_per_hr[k] = Zero
          /\ Mean(filtered, "Hole_Size") = Zero => out.metrics["DII"] = Zero
          /\ Sum(filtered, "Solids_Generated") = Zero => out.metrics["STE"] = Zero
          /\ RMul(inp.manual.number_of_screens, inp.manual.screen_area) = Zero =>
                out.metrics["SLI"] = Zero

\* C6: over a frame without records, filtered from a file with records, the
\* Advanced Analysis page computes nine metrics that are numbers, with the
\* ratio- and mean-based ones and every normalized value zero; over a group
\* without records, every field of the Cost Estimator's breakdown is a number.
C6_EmptyYieldsZero ==
    df # << >> =>
    /\ (page = "app.render_advanced_analysis" /\ fcols = Cols /\ filtered = << >>) =>
          /\ status = "ok"
          /\ \A k \in MetricNames :
                /\ ~IsNan(out.metrics[k])
                /\ out.norm_per_foot[k] = Zero
                /\ out.norm_per_hr[k] = Zero
          /\ \A k \in {"STE", "CVR", "FRC%", "DII", "FLI", "CDR"} : out.metrics[k] = Zero
    /\ (CostsShown /\ out.derrick_df = << >>) =>
          \A k \in CostFields : ~IsNan(out.derrick_cost[k])
    /\ (CostsShown /\ out.nond_df = << >>) =>
          \A k \in CostFields : ~IsNan(out.nond_cost[k])

\* The six components of a breakdown, in the order calc_cost adds them.
Components == << "Dilution", "Haul", "Screen", "Equipment", "Engineering", "Other" >>

\* A breakdown is the roll-up of the records rows under configuration c.
RollsUp(cost, rows, c) ==
    /\ cost["Dilution"] = RMul(IntNum(c.dil_rate), Sum(rows, "Total_Dil"))
    /\ cost["Haul"] = RMul(IntNum(c.haul_rate), Sum(rows, "Haul_OFF"))
    /\ cost["Screen"] = IntNum(c.screen_price * c.num_screens)
    /\ cost["Equipment"] = RDiv(IntNum(c.equip_cost * c.num_shakers), IntNum(c.shaker_life))
    /\ cost["Engineering"] = IntNum(c.eng_cost)
    /\ cost["Other"] = IntNum(c.other_cost)
    /\ cost["Total Cost"] = SumSeq([i \in 1..Len(Components) |-> cost[Components[i]]])

\* C11: in every breakdown the Cost Estimator shows, the total is the sum of
\* the six components, each component being its rate times the subset's sum,
\* the screen price times the screens, the equipment cost times the shakers
\* over the shaker life, the engineering cost and the other cost.
C11_TotalIsSumOfComponents ==
    CostsShown =>
        /\ RollsUp(out.derrick_cost, out.derrick_df, inp.derrick_config)
        /\ RollsUp(out.nond_cost, out.nond_df, inp.nond_config)

\* C11 witness: under the default configuration a group with Total_Dil 50
\* and Haul_OFF 40 costs 5000 + 800 + 500 + 300000/7 + 1000 + 500.
C11_Witness ==
    /\ CostsShown /\ inp.derrick_config = DefaultConfig
    /\ Sum(out.derrick_df, "Total_Dil") = IntNum(50)
    /\ Sum(out.derrick_df, "Haul_OFF") = IntNum(40)
    /\ out.derrick_cost["Dilution"] = IntNum(5000)
    /\ out.derrick_cost["Haul"] = IntNum(800)
    /\ out.derrick_cost["Total Cost"] = Frac(354600, 7)

\* The cost per foot of a breakdown over the records rows.
PerFootOf(cost, rows) ==
    LET feet == Sum(rows, "IntLength")
    IN  IF feet = Zero THEN cost["Cost/ft"] = Zero
        ELSE RMul(cost["Cost/ft"], feet) = cost["Total Cost"]

\* C12: in every breakdown the Cost Estimator shows, Cost/ft times the
\* subset's summed IntLength is the Total Cost when that sum is not zero, and
\* Cost/ft is exactly 0 when the sum is zero, the empty subset included.
C12_CostPerFoot ==
    CostsShown =>
        /\ PerFootOf(out.derrick_cost, out.derrick_df)
        /\ PerFootOf(out.nond_cost, out.nond_df)

\* C12 witness: the records of one group have a summed interval length of
\* zero and the group costs 0 per foot; the records of the other sum to a
\* positive length and the group costs its total over that length.
C12_Witness ==
    /\ CostsShown
    /\ out.nond_df # << >> /\ Sum(out.nond_df, "IntLength") = Zero
    /\ out.nond_cost["Total Cost"] # Zero /\ out.nond_cost["Cost/ft"] = Zero
    /\ Sum(out.derrick_df, "IntLength") = IntNum(100)
    /\ out.derrick_cost["Cost/ft"] = RDiv(out.derrick_cost["Total Cost"], IntNum(100))
    /\ out.derrick_cost["Cost/ft"] # Zero

\* q is what the guarded division of n by d has to give: 0 over a zero
\* denominator, n / d over any other; a quotient with nan in it is nan.
IsSafeQuotient(q, n, d) ==
    IF d = Zero THEN q = Zero
    ELSE IF IsNan(n) \/ IsNan(d) THEN IsNan(q)
    ELSE ~IsNan(q) /\ RMul(q, d) = n

\* C13: every ratio the Advanced Analysis page shows is the guarded
\* division of its numerator by its denominator: 0 when the denominator is
\* zero and numerator / denominator otherwise.  CVR is the summed Haul_OFF
\* over the summed IntLength of the filtered records, 0 when that length is 0.
C13_SafeDiv ==
    MetricsShown =>
        LET feet  == Sum(filtered, "IntLength")
            hours == Sum(filtered, "Drilling_Hours")
            m     == out.metrics
        IN  /\ IsSafeQuotient(m["CVR"], Sum(filtered, "Haul_OFF"), feet)
            /\ IsSafeQuotient(m["CDR"], Sum(filtered, "Chemicals"), feet)
            /\ IsSafeQuotient(m["FLI"],
                              SumSeq(<< Sum(filtered, "Base_Oil"), Sum(filtered, "Water"),
                                        Sum(filtered, "Chemicals") >>), feet)
            /\ IsSafeQuotient(m["SLI"], inp.manual.total_flow_rate,
                              RMul(inp.manual.number_of_screens, inp.manual.screen_area))
            /\ IsSafeQuotient(m["DII"], Mean(filtered, "ROP"), Mean(filtered, "Hole_Size"))
            /\ \A k \in MetricNames :
                  /\ IsSafeQuotient(out.norm_per_foot[k], m[k], feet)
                  /\ IsSafeQuotient(out.norm_per_hr[k], m[k], hours)

\* C13 witness: interval lengths 100, 200, 0 and haul-offs 10, 20, 5 give a
\* CVR of 35/300, and with the number of screens at 0 the SLI is 0.
C13_Witness ==
    /\ MetricsShown
    /\ [i \in 1..Len(filtered) |-> filtered[i].v["IntLength"]]
           = << IntNum(100), IntNum(200), IntNum(0) >>
    /\ [i \in 1..Len(filtered) |-> filtered[i].v["Haul_OFF"]]
           = << IntNum(10), IntNum(20), IntNum(5) >>
    /\ out.metrics["CVR"] = Frac(35, 300)
    /\ inp.manual.number_of_screens = Zero /\ out.metrics["SLI"] = Zero

\* C14: whenever the Advanced Analysis page shows its metrics over a file
\* with records, MRE% and FRC% add up to 100 and so do DSL and STE.
C14_ComplementsSumTo100 ==
    (MetricsShown /\ df # << >>) =>
        /\ RAdd(out.metrics["MRE%"], out.metrics["FRC%"]) = IntNum(100)
        /\ RAdd(out.metrics["DSL"], out.metrics["STE"]) = IntNum(100)

\* A record of the file is in the group the select boxes g describe.
InGroup(row, g) ==
    /\ row.v["flowline_Shakers"] = g.shaker
    /\ g.operator = All \/ row.v["Operator"] = g.operator
    /\ g.contractor = All \/ row.v["Contractor"] = g.contractor
    /\ g.well = All \/ row.v["Well_Name"] = g.well

\* x is below zero.
Negative(x) == x.t = "num" /\ x.n < 0

\* C15: the Cost Estimator computes each group's breakdown from the records
\* of the file its own select boxes keep, under its own configuration; the
\* two differences are the second group's value minus the first group's, and
\* each is shown green exactly when it is >= 0 and red otherwise.
C15_SignedDifferences ==
    CostsShown =>
        /\ Labels(out.derrick_df) = LabelsWhere(LAMBDA row : InGroup(row, inp.d))
        /\ Labels(out.nond_df) = LabelsWhere(LAMBDA row : InGroup(row, inp.nd))
        /\ out.derrick_cost = calc_cost(Ok(out.derrick_df, Cols), inp.derrick_config).val
        /\ out.nond_cost = calc_cost(Ok(out.nond_df, Cols), inp.nond_config).val
        /\ RAdd(out.derrick_cost["Total Cost"], out.delta_total) = out.nond_cost["Total Cost"]
        /\ RAdd(out.derrick_cost["Cost/ft"], out.delta_ft) = out.nond_cost["Cost/ft"]
        /\ out.text_color_total = (IF Negative(out.delta_total) THEN "red" ELSE "green")
        /\ out.text_color_ft = (IF Negative(out.delta_ft) THEN "red" ELSE "green")

\* C15 witness: two groups of different records under different
\* configurations, the second costing less in total (red) and at least as
\* much per foot (green).
C15_Witness ==
    /\ CostsShown
    /\ inp.derrick_config # inp.nond_config
    /\ out.derrick_df # << >> /\ out.nond_df # << >>
    /\ Labels(out.derrick_df) # Labels(out.nond_df)
    /\ Negative(out.delta_total) /\ out.text_color_total = "red"
    /\ ~Negative(out.delta_ft) /\ out.text_color_ft = "green"

\* C16: no render changes the file its caller loaded: across every step of
\* every page, the variant of render_multi_well_page(df) that assigns
\* df["TD_Date"] included, the caller's frame keeps its records and each of
\* their values.
C16_SourceNotMutated == [][df' = df]_vars

\* C16 witness: render_multi_well_page(df) assigned the date column of a file
\* with a date and a missing date, and returned fewer records than the file
\* has.
C16_Witness ==
    /\ page = "advanced_analysis.render_multi_well_page" /\ status = "ok"
    /\ \E i \in 1..Len(df) : df[i].v["TD_Date"].t = "date"
    /\ \E i \in 1..Len(df) : df[i].v["TD_Date"] = NaT
    /\ filtered # << >> /\ Len(filtered) < Len(df)

\* C17: over a file with records that lacks a column the metrics read, the
\* Advanced Analysis page and the Cost Estimator complete, and each value
\* computed from the missing column alone is zero.
C17_MissingColumnYieldsZero ==
    (df # << >> /\ schema # Cols /\ page \in {"app.render_advanced_analysis",
                                                "render_cost_estimator"}) =>
        /\ status = "ok"
        /\ (page = "render_cost_estimator" /\ "LGS" \notin schema) =>
               out.derrick_cost["Avg LGS%"] = Zero /\ out.nond_cost["Avg LGS%"] = Zero
        /\ (page = "render_cost_estimator" /\ "Total_Dil" \notin schema) =>
               out.derrick_cost["Dilution"] = Zero /\ out.nond_cost["Dilution"] = Zero
        /\ (page = "app.render_advanced_analysis" /\ "Haul_OFF" \notin schema) =>
               out.metrics["CVR"] = Zero

\* C18: every run of app.py gets past its module-level statements to the
\* dispatch and calls the function of one of the four pages with the whole
\* loaded file.
C18_RunReachesDispatch ==
    status # "idle" =>
        /\ status = "ok"
        /\ page \in {PageFunction(choice) : choice \in NavPages}
        /\ Labels(filtered) = Labels(df)

\* The records rows are a group the select boxes g can have left: there is
\* one, all are of the selected shaker, and each select box away from "All"
\* holds the value all of them have.
GroupOfOneShaker(rows, g) ==
    /\ rows # << >>
    /\ g.shaker \in RawOptions(df, "flowline_Shakers")
    /\ \A i \in 1..Len(rows) :
          /\ rows[i].v["flowline_Shakers"] = g.shaker
          /\ g.operator = All \/ rows[i].v["Operator"] = g.operator
          /\ g.contractor = All \/ rows[i].v["Contractor"] = g.contractor
          /\ g.well = All \/ rows[i].v["Well_Name"] = g.well

\* C19: over a file with at least one shaker value, whatever is chosen from
\* the menus of the Cost Estimator, each group has a record, and all records
\* of a group are of the one shaker type selected for it.
C19_CascadeKeepsOneShaker ==
    (CostsShown /\ RawOptions(df, "flowline_Shakers") # {}) =>
        /\ GroupOfOneShaker(out.derrick_df, inp.d)
        /\ GroupOfOneShaker(out.nond_df, inp.nd)

\* C19 witness: the file has two shaker types; the first group is narrowed
\* by shaker and operator to fewer records than its shaker has, the second
\* is of the other shaker.
C19_Witness ==
    /\ CostsShown
    /\ Cardinality(RawOptions(df, "flowline_Shakers")) = 2
    /\ inp.d.shaker # inp.nd.shaker
    /\ inp.d.operator # All
    /\ out.derrick_df # << >> /\ out.nond_df # << >>
    /\ \E i \in 1..Len(df) :
          /\ df[i].v["flowline_Shakers"] = inp.d.shaker
          /\ df[i].idx \notin {out.derrick_df[k].idx : k \in 1..Len(out.derrick_df)}

====
